---- MODULE Spec2Model ----
(***************************************************************************)
(* Model of phper's function registration and dispatch                     *)
(* (phper/src/functions.rs) and of the module-global cell                  *)
(* (phper/src/zend/api.rs).                                                *)
(*                                                                         *)
(* Memory is modelled explicitly: every object lives at an integer         *)
(* address, a pointer is an integer, 0 is the null pointer.  A string      *)
(* buffer is a sequence of text chunks; the chunk NUL is the terminating   *)
(* zero byte.                                                              *)
(***************************************************************************)
EXTENDS Integers, Sequences, FiniteSets, TLC

\* ------------------------------------------------------------------------
\* Bounds of the model
\* ------------------------------------------------------------------------
MaxArgs == 2
MaxActual == 3
NumSlots == 2
NumThreads == 2
MaxArrays == 2
MaxCellValue == 2

\* ------------------------------------------------------------------------
\* Strings and pointers
\* ------------------------------------------------------------------------
NUL == "\\0"

NullPtr == 0

RECURSIVE CStr(_)
\* the text a C reader sees at a buffer: everything before the first NUL
CStr(buf) ==
    IF buf = <<>> \/ Head(buf) = NUL THEN <<>>
    ELSE <<Head(buf)>> \o CStr(Tail(buf))

RECURSIVE Text(_)
Text(chunks) ==
    IF chunks = <<>> THEN "" ELSE Head(chunks) \o Text(Tail(chunks))

RECURSIVE ByteLen(_)
\* str::len(): NUL is one byte, a text chunk counts its characters
ByteLen(buf) ==
    IF buf = <<>> THEN 0
    ELSE (IF Head(buf) = NUL THEN 1 ELSE Len(Head(buf))) + ByteLen(Tail(buf))

\* name.to_string() followed by name.push('\0')
TerminatedName(name) == Append(<<name>>, NUL)

\* ------------------------------------------------------------------------
\* Build configuration: cfg(phper_php_version = ...)
\* ------------------------------------------------------------------------
Versions == {"7.0", "7.1", "7.2", "7.3", "7.4", "8.0"}

\* ------------------------------------------------------------------------
\* Argument
\* ------------------------------------------------------------------------
ArgNames == {"a", "b"}

by_val(name) ==
    [name |-> TerminatedName(name), pass_by_ref |-> FALSE, required |-> TRUE]

by_ref(name) ==
    [name |-> TerminatedName(name), pass_by_ref |-> TRUE, required |-> TRUE]

by_val_optional(name) ==
    [name |-> TerminatedName(name), pass_by_ref |-> FALSE, required |-> FALSE]

by_ref_optional(name) ==
    [name |-> TerminatedName(name), pass_by_ref |-> TRUE, required |-> FALSE]

Arguments(names) ==
    UNION {{by_val(n), by_ref(n), by_val_optional(n), by_ref_optional(n)} :
           n \in names}

SeqsUpTo(S, n) == UNION {[1..k -> S] : k \in 0..n}

\* ------------------------------------------------------------------------
\* State
\* ------------------------------------------------------------------------
VARIABLES
    php_version,   \* the layout selected by cfg(phper_php_version)
    entities,      \* slot -> the FunctionEntity stored there
    arrays,        \* the leaked argument-info arrays, in allocation order
    records,       \* zend_function_entry values returned by entry()
    functions,     \* the engine's function table (installed records)
    pc,            \* thread -> position inside invoke
    frame,         \* thread -> the zend_execute_data of its call
    handler,       \* thread -> the Callable pointer recovered by invoke
    calls,         \* thread -> closure invocations made by its call
    warnings,      \* thread -> warnings emitted by its call
    return_value,  \* thread -> the zval return slot of its call
    classAtStart,  \* thread -> class reference of the callee when the call began
    cell,          \* memory of the ModuleGlobals cell
    ini_entry,     \* the zend_ini_entry_def built from the cell
    got,           \* addresses returned by ModuleGlobals::get so far
    lastWritten,   \* the value of the most recent write into the cell
    readBack       \* the most recent read through get(), and what had been
                   \* written last when it was made

regVars == <<php_version, entities, arrays, records, functions>>
callVars == <<pc, frame, handler, calls, warnings, return_value, classAtStart>>
cellVars == <<cell, ini_entry, got, lastWritten, readBack>>
vars == <<php_version, entities, arrays, records, functions, pc, frame,
          handler, calls, warnings, return_value, classAtStart, cell,
          ini_entry, got, lastWritten, readBack>>

Slots == 1..NumSlots
Threads == 1..NumThreads

\* ------------------------------------------------------------------------
\* Memory layout
\* ------------------------------------------------------------------------
SlotStride == 1000
HandlerOffset == 24
NameBufOffset == 100
ClosureOffset == 200
ArgNameBufOffset == 300
ArrayBase == 100000
ArrayStride == 100

EntityAddr(s) == s * SlotStride
\* &self.handler
HandlerAddr(s) == EntityAddr(s) + HandlerOffset
\* self.name.as_ptr()
NameBuf(s) == EntityAddr(s) + NameBufOffset
\* the heap allocation behind Box<dyn Function> / Box<dyn Method>
ClosureAddr(s) == EntityAddr(s) + ClosureOffset
\* self.arguments[i].name.as_ptr()
ArgNameBuf(s, i) == EntityAddr(s) + ArgNameBufOffset + i

\* address of the k-th leaked array (Box::into_raw)
ArrayAddr(k) == ArrayBase + k * ArrayStride

\* ------------------------------------------------------------------------
\* Callable and FunctionEntity
\* ------------------------------------------------------------------------
Kinds == {"Function", "Method"}

Classes == {7001, 7002}

\* Callable::Function(Box<dyn Function>)
CallableFunction(closure) ==
    [kind |-> "Function", closure |-> closure, class |-> NullPtr]

\* Callable::Method(Box<dyn Method>, AtomicPtr<ClassEntry>)
CallableMethod(closure, class) ==
    [kind |-> "Method", closure |-> closure, class |-> class]

NoEntity == [live |-> FALSE]

\* FunctionEntity::new
FunctionEntity_new(name, callable, arguments) ==
    [live |-> TRUE,
     name |-> TerminatedName(name),
     handler |-> callable,
     arguments |-> arguments]

Live(s) == entities[s].live

\* the slot whose Callable lives at address p, if any
SlotsAtHandler(p) == {s \in Slots : Live(s) /\ HandlerAddr(s) = p}

\* ------------------------------------------------------------------------
\* zend_internal_arg_info
\* ------------------------------------------------------------------------
BoolToUchar(b) == IF b THEN 1 ELSE 0

create_zend_arg_info(name, _pass_by_ref) ==
    IF php_version = "8.0" THEN
        [name |-> name,
         type_ |-> [ptr |-> NullPtr, type_mask |-> 0],
         default_value |-> NullPtr]
    ELSE IF php_version \in {"7.4", "7.3", "7.2"} THEN
        [name |-> name,
         type_ |-> 0,
         pass_by_reference |-> BoolToUchar(_pass_by_ref),
         is_variadic |-> 0]
    ELSE
        [name |-> name,
         class_name |-> NullPtr,
         type_hint |-> 0,
         allow_null |-> 0,
         pass_by_reference |-> BoolToUchar(_pass_by_ref),
         is_variadic |-> 0]

\* zeroed::<zend_internal_arg_info>()
zeroed_arg_info ==
    IF php_version = "8.0" THEN
        [name |-> 0, type_ |-> [ptr |-> 0, type_mask |-> 0], default_value |-> 0]
    ELSE IF php_version \in {"7.4", "7.3", "7.2"} THEN
        [name |-> 0, type_ |-> 0, pass_by_reference |-> 0, is_variadic |-> 0]
    ELSE
        [name |-> 0, class_name |-> 0, type_hint |-> 0, allow_null |-> 0,
         pass_by_reference |-> 0, is_variadic |-> 0]

\* ------------------------------------------------------------------------
\* FunctionEntity::entry
\* ------------------------------------------------------------------------
InvokeFn == 424242

RECURSIVE leading_required(_)
\* counts the required arguments up to the first optional one only
leading_required(arguments) ==
    IF arguments = <<>> \/ ~Head(arguments).required THEN 0
    ELSE 1 + leading_required(Tail(arguments))

\* self.arguments.iter().filter(|arg| arg.required).count()
require_arg_count(arguments) ==
    Cardinality({i \in DOMAIN arguments : arguments[i].required})

\* ((&self.handler) as *const _ as *mut i8).cast()
handler_ptr(s) == HandlerAddr(s)

\* the infos vector built by entry() for the entity in slot s
entry_infos(s) ==
    LET args == entities[s].arguments
        header == create_zend_arg_info(require_arg_count(args), FALSE)
        declared == [i \in 1..Len(args) |->
                        create_zend_arg_info(ArgNameBuf(s, i), args[i].pass_by_ref)]
        last_arg_info == [zeroed_arg_info EXCEPT !.name = handler_ptr(s)]
    IN  <<header>> \o declared \o <<zeroed_arg_info>> \o <<last_arg_info>>

\* the zend_function_entry returned by entry(); arg_info is the address the
\* boxed slice is leaked at.  self.arguments.len() as u32 keeps the value:
\* the lengths here are far below 2^32
entry_record(s, arg_info) ==
    [fname |-> NameBuf(s),
     handler |-> InvokeFn,
     arg_info |-> arg_info,
     num_args |-> Len(entities[s].arguments),
     flags |-> 0]

\* entry() taking self by value: the entity is dropped when it returns
Entry_consuming(s) ==
    /\ Live(s)
    /\ Len(arrays) < MaxArrays
    /\ arrays' = Append(arrays, entry_infos(s))
    /\ records' = records \cup {entry_record(s, ArrayAddr(Len(arrays) + 1))}
    /\ entities' = [entities EXCEPT ![s] = NoEntity]
    /\ UNCHANGED <<php_version, functions>>
    /\ UNCHANGED callVars
    /\ UNCHANGED cellVars

Entry(s) ==
    /\ Live(s)
    /\ Len(arrays) < MaxArrays
    /\ arrays' = Append(arrays, entry_infos(s))
    /\ records' = records \cup {entry_record(s, ArrayAddr(Len(arrays) + 1))}
    /\ UNCHANGED <<php_version, entities, functions>>
    /\ UNCHANGED callVars
    /\ UNCHANGED cellVars

\* ------------------------------------------------------------------------
\* Registration: construction, class resolution, the engine's installation
\* ------------------------------------------------------------------------
FnNames == {"f"}

\* the Callable a registration of the given kind starts with: the class
\* reference of a method is unresolved until its class is registered
NewCallable(s, kind) ==
    IF kind = "Function" THEN CallableFunction(ClosureAddr(s))
    ELSE CallableMethod(ClosureAddr(s), NullPtr)

Construct(s, name, kind, arguments) ==
    /\ ~Live(s)
    /\ entities' = [entities EXCEPT
                      ![s] = FunctionEntity_new(name, NewCallable(s, kind), arguments)]
    /\ UNCHANGED <<php_version, arrays, records, functions>>
    /\ UNCHANGED callVars
    /\ UNCHANGED cellVars

\* class registration stores the class entry into the method's AtomicPtr
ResolveClass(s, class) ==
    /\ Live(s)
    /\ entities[s].handler.kind = "Method"
    /\ entities[s].handler.class = NullPtr
    /\ entities' = [entities EXCEPT ![s].handler.class = class]
    /\ UNCHANGED <<php_version, arrays, records, functions>>
    /\ UNCHANGED callVars
    /\ UNCHANGED cellVars

\* the cells a read through pointer p can yield: the cell stored there, or
\* anything an out-of-bounds read can produce
GarbagePtrs == {NullPtr} \cup {HandlerAddr(s) : s \in Slots}

ReadCells(p) ==
    LET hits == {ki \in (1..Len(arrays)) \X (1..(MaxArgs + 4)) :
                    /\ ki[2] <= Len(arrays[ki[1]])
                    /\ p = ArrayAddr(ki[1]) + (ki[2] - 1)}
    IN  IF hits # {} THEN {arrays[ki[1]][ki[2]] : ki \in hits}
        ELSE {[zeroed_arg_info EXCEPT !.name = g] : g \in GarbagePtrs}

\* zend_register_functions: the header cell is read as
\* zend_internal_function_info, the function's arg_info starts one cell later
InternalFunction(rec, header) ==
    [fname |-> rec.fname,
     handler |-> rec.handler,
     arg_info |-> rec.arg_info + 1,
     num_args |-> rec.num_args,
     required_num_args |-> header.name]

Install(rec) ==
    /\ rec \in records
    /\ \E header \in ReadCells(rec.arg_info) :
          functions' = functions \cup {InternalFunction(rec, header)}
    /\ records' = records \ {rec}
    /\ UNCHANGED <<php_version, entities, arrays>>
    /\ UNCHANGED callVars
    /\ UNCHANGED cellVars

\* a function entry assembled without entry(): same layout, but the trailing
\* cell was never given the Callable pointer
InstallForeign(s) ==
    /\ Live(s)
    /\ Len(arrays) < MaxArrays
    /\ LET infos == entry_infos(s)
           n == Len(infos)
       IN  /\ arrays' = Append(arrays, [infos EXCEPT ![n] = zeroed_arg_info])
           /\ functions' = functions \cup
                 {[fname |-> NameBuf(s),
                   handler |-> InvokeFn,
                   arg_info |-> ArrayAddr(Len(arrays) + 1) + 1,
                   num_args |-> Len(entities[s].arguments),
                   required_num_args |-> infos[1].name]}
    /\ UNCHANGED <<php_version, entities, records>>
    /\ UNCHANGED callVars
    /\ UNCHANGED cellVars

\* ------------------------------------------------------------------------
\* ExecuteData accessors
\* ------------------------------------------------------------------------
common_num_args(ed) == ed.func.num_args
common_arg_info(ed) == ed.func.arg_info
common_required_num_args(ed) == ed.func.required_num_args
num_args(ed) == Len(ed.args)
get_parameters_array(ed) == [i \in 1..num_args(ed) |-> ed.args[i]]
get_this(ed) == ed.this

\* ------------------------------------------------------------------------
\* invoke
\* ------------------------------------------------------------------------
NoFrame == [active |-> FALSE]
Unset == [kind |-> "unset", by |-> 0]
Void == [kind |-> "null", by |-> 0]
Result(closure) == [kind |-> "result", by |-> closure]

NoReceiver == [present |-> FALSE, handle |-> NullPtr, class |-> NullPtr]

\* Object::new(this, class)
Object_new(this, class) == [present |-> TRUE, handle |-> this, class |-> class]

\* the receiver handle the engine puts into the frame of thread t
ThisBase == 9000
ThisOf(t) == ThisBase + t

ArgValue(i) == 10 + i

Aborted == \E t \in Threads : pc[t] = "panicked"

\* the class reference of the registration a function entry belongs to
OwnerSlots(fn) == {s \in Slots : Live(s) /\ NameBuf(s) = fn.fname}

ClassOfOwner(fn) ==
    IF OwnerSlots(fn) = {} THEN NullPtr
    ELSE entities[CHOOSE s \in OwnerSlots(fn) : TRUE].handler.class

\* the engine calls the handler of an installed function on a fresh frame
\* and a fresh return slot; a thread makes its calls one after the other
BeginCall(t, fn, actual) ==
    /\ ~Aborted
    /\ pc[t] \in {"idle", "done"}
    /\ fn \in functions
    /\ fn.handler = InvokeFn
    /\ frame' = [frame EXCEPT ![t] =
                    [active |-> TRUE, func |-> fn,
                     args |-> [i \in 1..actual |-> ArgValue(i)],
                     this |-> ThisOf(t)]]
    /\ classAtStart' = [classAtStart EXCEPT ![t] = ClassOfOwner(fn)]
    /\ pc' = [pc EXCEPT ![t] = "entered"]
    /\ handler' = [handler EXCEPT ![t] = NullPtr]
    /\ calls' = [calls EXCEPT ![t] = <<>>]
    /\ warnings' = [warnings EXCEPT ![t] = <<>>]
    /\ return_value' = [return_value EXCEPT ![t] = Unset]
    /\ UNCHANGED regVars
    /\ UNCHANGED cellVars

\* the offset without the terminator cell
last_arg_info_ptr_short(ed) == common_arg_info(ed) + common_num_args(ed)

\* arg_info.offset((num_args + 1) as isize)
last_arg_info_ptr(ed) == common_arg_info(ed) + (common_num_args(ed) + 1)

\* the pointer is dereferenced unchecked
as_ref_is_none_unchecked(p) == FALSE

\* handler.as_ref() is None exactly for the null pointer
as_ref_is_none(p) == p = NullPtr

\* lines 161-166: locate the trailing cell and take its name as the Callable
RecoverHandler(t) ==
    /\ ~Aborted
    /\ pc[t] = "entered"
    /\ \E last \in ReadCells(last_arg_info_ptr(frame[t])) :
          IF as_ref_is_none(last.name)
          THEN /\ pc' = [pc EXCEPT ![t] = "panicked"]
               /\ UNCHANGED handler
          ELSE /\ pc' = [pc EXCEPT ![t] = "check"]
               /\ handler' = [handler EXCEPT ![t] = last.name]
    /\ UNCHANGED <<frame, calls, warnings, return_value, classAtStart>>
    /\ UNCHANGED regVars
    /\ UNCHANGED cellVars

\* the arity check with the bound included
TooFewArguments_inclusive(actual, required) == actual <= required

\* the condition of the arity check
TooFewArguments(actual, required) == actual < required

\* the message with the two numbers in the wrong order
WarningMessage_swapped(required, actual) ==
    <<"expects at least ", ToString(actual), " parameter(s), ",
      ToString(required), " given", NUL>>

\* format!("expects at least {} parameter(s), {} given\\0", required, actual)
WarningMessage(required, actual) ==
    <<"expects at least ", ToString(required), " parameter(s), ",
      ToString(actual), " given", NUL>>

\* lines 168-183
CheckArity(t) ==
    /\ ~Aborted
    /\ pc[t] = "check"
    /\ LET ed == frame[t]
       IN  IF TooFewArguments(num_args(ed), common_required_num_args(ed))
           THEN /\ warnings' = [warnings EXCEPT ![t] =
                       Append(@, Text(CStr(WarningMessage(
                                  common_required_num_args(ed), num_args(ed)))))]
                /\ return_value' = [return_value EXCEPT ![t] = Void]
                /\ pc' = [pc EXCEPT ![t] = "done"]
           ELSE /\ pc' = [pc EXCEPT ![t] = "dispatch"]
                /\ UNCHANGED <<warnings, return_value>>
    /\ UNCHANGED <<frame, handler, calls, classAtStart>>
    /\ UNCHANGED regVars
    /\ UNCHANGED cellVars

\* the Callables a reference made from pointer p can denote: the one stored
\* there, or any Callable if nothing live is stored there
Callables(p) ==
    IF SlotsAtHandler(p) # {}
    THEN {entities[s].handler : s \in SlotsAtHandler(p)}
    ELSE {CallableFunction(ClosureAddr(s)) : s \in Slots} \cup
         {CallableMethod(ClosureAddr(s), c) : s \in Slots, c \in Classes \cup {NullPtr}}

\* the class reference as it was when the Callable was constructed
LoadClass_stale(callable) == NullPtr

\* class.load(Ordering::SeqCst)
LoadClass(callable) == callable.class

\* a receiver that is not made from the frame's receiver handle
Receiver_nohandle(callable, ed) ==
    IF callable.kind = "Function" THEN NoReceiver
    ELSE Object_new(NullPtr, LoadClass(callable))

\* the receiver handed to the closure
Receiver(callable, ed) ==
    IF callable.kind = "Function" THEN NoReceiver
    ELSE Object_new(get_this(ed), LoadClass(callable))

\* lines 185-195
Dispatch(t) ==
    /\ ~Aborted
    /\ pc[t] = "dispatch"
    /\ \E callable \in Callables(handler[t]) :
          /\ calls' = [calls EXCEPT ![t] =
                 Append(@, [callable |-> handler[t],
                            kind |-> callable.kind,
                            closure |-> callable.closure,
                            this |-> Receiver(callable, frame[t]),
                            arguments |-> get_parameters_array(frame[t])])]
          /\ return_value' = [return_value EXCEPT ![t] = Result(callable.closure)]
    /\ pc' = [pc EXCEPT ![t] = "done"]
    /\ UNCHANGED <<frame, handler, warnings, classAtStart>>
    /\ UNCHANGED regVars
    /\ UNCHANGED cellVars

\* ------------------------------------------------------------------------
\* ModuleGlobals
\* ------------------------------------------------------------------------
\* the static the cell is, and a location that is not the cell
CellAddr == 50000
ScratchAddr == 60000
\* #[repr(C)] struct with the single field inner
InnerOffset == 0

MemAddrs == {CellAddr + InnerOffset, ScratchAddr}

\* static strings handed to create_ini_entry_def, and where they are stored
StrBase == 70000
IniStrings == <<<<"x.on", NUL>>, <<"x.level">>, <<"1", NUL>>, <<"">>>>
IniNames == {1, 2}
IniDefaults == {3, 4}
\* str::as_ptr()
as_ptr(k) == StrBase + k

\* Option<Mh>: None is the null function pointer
OnUpdate == 80001
IniHooks == {NullPtr, OnUpdate}

\* PHP_INI_USER, PHP_INI_PERDIR, PHP_INI_SYSTEM, PHP_INI_ALL
IniModes == {1, 2, 4, 7}

CellValues == 0..MaxCellValue

\* ModuleGlobals::get
get == CellAddr + InnerOffset

\* the cell's address put into the first argument slot
create_ini_entry_def_arg1(name, default_value, on_modify, modifiable) ==
    [name |-> as_ptr(name),
     on_modify |-> on_modify,
     mh_arg1 |-> get,
     mh_arg2 |-> NullPtr,
     mh_arg3 |-> NullPtr,
     value |-> as_ptr(default_value),
     displayer |-> NullPtr,
     modifiable |-> modifiable,
     name_length |-> ByteLen(IniStrings[name]),
     value_length |-> ByteLen(IniStrings[default_value])]

\* ModuleGlobals::create_ini_entry_def; name and default_value are indices
\* into IniStrings.  The casts to u32 and c_int keep the values drawn here.
create_ini_entry_def(name, default_value, on_modify, modifiable) ==
    [name |-> as_ptr(name),
     on_modify |-> on_modify,
     mh_arg1 |-> NullPtr,
     mh_arg2 |-> get,
     mh_arg3 |-> NullPtr,
     value |-> as_ptr(default_value),
     displayer |-> NullPtr,
     modifiable |-> modifiable,
     name_length |-> ByteLen(IniStrings[name]),
     value_length |-> ByteLen(IniStrings[default_value])]

\* a store through pointer p; a store through a pointer to nowhere is lost
Store(mem, p, v) == IF p \in DOMAIN mem THEN [mem EXCEPT ![p] = v] ELSE mem

Get ==
    /\ got' = got \cup {get}
    /\ UNCHANGED <<cell, ini_entry, lastWritten, readBack>>
    /\ UNCHANGED regVars
    /\ UNCHANGED callVars

CreateIniEntryDef(name, default_value, on_modify, modifiable) ==
    /\ ini_entry' = [built |-> TRUE,
                     given |-> <<name, default_value, on_modify, modifiable>>,
                     def |-> create_ini_entry_def(name, default_value,
                                                  on_modify, modifiable)]
    /\ got' = got \cup {get}
    /\ UNCHANGED <<cell, lastWritten, readBack>>
    /\ UNCHANGED regVars
    /\ UNCHANGED callVars

\* the engine updates the setting: it writes to the address in mh_arg2
WriteThroughBinding(v) ==
    /\ ini_entry.built
    /\ cell' = Store(cell, ini_entry.def.mh_arg2, v)
    /\ lastWritten' = v
    /\ UNCHANGED <<ini_entry, got, readBack>>
    /\ UNCHANGED regVars
    /\ UNCHANGED callVars

\* *cell.get() = v
WriteThroughGet(v) ==
    /\ cell' = Store(cell, get, v)
    /\ got' = got \cup {get}
    /\ lastWritten' = v
    /\ UNCHANGED <<ini_entry, readBack>>
    /\ UNCHANGED regVars
    /\ UNCHANGED callVars

\* *cell.get()
ReadThroughGet ==
    /\ readBack' = [value |-> cell[get], latest |-> lastWritten]
    /\ got' = got \cup {get}
    /\ UNCHANGED <<cell, ini_entry, lastWritten>>
    /\ UNCHANGED regVars
    /\ UNCHANGED callVars

\* ------------------------------------------------------------------------
\* Specifications
\* ------------------------------------------------------------------------
CallInit ==
    /\ pc = [t \in Threads |-> "idle"]
    /\ frame = [t \in Threads |-> NoFrame]
    /\ handler = [t \in Threads |-> NullPtr]
    /\ calls = [t \in Threads |-> <<>>]
    /\ warnings = [t \in Threads |-> <<>>]
    /\ return_value = [t \in Threads |-> Unset]
    /\ classAtStart = [t \in Threads |-> NullPtr]

CellInit ==
    /\ cell = [a \in MemAddrs |-> 0]
    /\ ini_entry = [built |-> FALSE]
    /\ got = {}
    /\ lastWritten = 0
    /\ readBack = [value |-> 0, latest |-> 0]

RegInit ==
    /\ entities = [s \in Slots |-> NoEntity]
    /\ arrays = <<>>
    /\ records = {}
    /\ functions = {}

\* argument lists whose names follow the position
PositionalName(i) == IF i = 1 THEN "a" ELSE "b"

CallArgLists ==
    {args \in SeqsUpTo(Arguments(ArgNames), MaxArgs) :
        \A i \in DOMAIN args : args[i].name = TerminatedName(PositionalName(i))}

\* argument lists of required by-value arguments
PlainArgLists == {[i \in 1..k |-> by_val(PositionalName(i))] : k \in 0..MaxArgs}

\* one build per layout
LayoutVersions == {"7.0", "7.4", "8.0"}

\* actual argument counts tried where the arity is not the subject
FewOrMany == {0, MaxActual}

FirstSlot == {1}
FirstThread == {1}

\* a different declared count in every slot, so that the trailing cells of
\* different registrations lie at different offsets
ListOfSlot(s) ==
    [i \in 1..((s - 1) % (MaxArgs + 1)) |-> by_val(PositionalName(i))]

\* the registration thread t calls when every thread calls another one
SlotOfThread(t) == ((t - 1) % NumSlots) + 1

\* --- one registration, calls made one after the other ---
Init ==
    /\ php_version \in LayoutVersions
    /\ RegInit
    /\ CallInit
    /\ CellInit

Calling(threads, actuals) ==
    \/ \E t \in threads, fn \in functions, actual \in actuals :
          BeginCall(t, fn, actual)
    \/ \E t \in threads : RecoverHandler(t)
    \/ \E t \in threads : CheckArity(t)
    \/ \E t \in threads : Dispatch(t)

Next ==
    \/ \E s \in FirstSlot, name \in FnNames, kind \in Kinds, args \in CallArgLists :
          Construct(s, name, kind, args)
    \/ \E s \in FirstSlot, class \in Classes : ResolveClass(s, class)
    \/ \E s \in FirstSlot : Entry(s)
    \/ \E rec \in records : Install(rec)
    \/ Calling(FirstThread, 0..MaxActual)

Spec == Init /\ [][Next]_vars

\* --- the same, with function entries that were not built by entry() ---
NextFault ==
    \/ \E s \in FirstSlot, name \in FnNames, kind \in Kinds, args \in PlainArgLists :
          Construct(s, name, kind, args)
    \/ \E s \in FirstSlot : Entry(s)
    \/ \E rec \in records : Install(rec)
    \/ \E s \in FirstSlot : InstallForeign(s)
    \/ Calling(FirstThread, FewOrMany)

SpecFault == Init /\ [][NextFault]_vars

\* --- several registrations, their whole life ---
NextLife ==
    \/ \E s \in Slots, name \in FnNames, kind \in Kinds :
          Construct(s, name, kind, ListOfSlot(s))
    \/ \E s \in Slots : Entry(s)
    \/ \E rec \in records : Install(rec)
    \/ Calling(FirstThread, FewOrMany)

SpecLife == Init /\ [][NextLife]_vars

\* --- several installed registrations, each called from its own thread ---
InitConc ==
    /\ php_version \in LayoutVersions
    /\ \E kinds \in [Slots -> Kinds] :
          entities = [s \in Slots |->
              FunctionEntity_new("f", NewCallable(s, kinds[s]), ListOfSlot(s))]
    /\ arrays = [s \in Slots |-> entry_infos(s)]
    /\ records = {}
    /\ functions = {InternalFunction(entry_record(s, ArrayAddr(s)), arrays[s][1]) :
                       s \in Slots}
    /\ CallInit
    /\ CellInit

NextConc ==
    \/ \E s \in Slots, class \in Classes : ResolveClass(s, class)
    \/ \E t \in Threads, actual \in FewOrMany :
          \E fn \in {f \in functions : f.fname = NameBuf(SlotOfThread(t))} :
              BeginCall(t, fn, actual)
    \/ \E t \in Threads : RecoverHandler(t)
    \/ \E t \in Threads : CheckArity(t)
    \/ \E t \in Threads : Dispatch(t)

SpecConc == InitConc /\ [][NextConc]_vars

\* --- entry() applied to every FunctionEntity ---
AllArgLists == SeqsUpTo(Arguments(ArgNames), MaxArgs)

InitEntry ==
    /\ php_version \in Versions
    /\ \E s \in Slots, name \in FnNames, kind \in Kinds, args \in AllArgLists :
          entities = [t \in Slots |->
              IF t = s THEN FunctionEntity_new(name, NewCallable(s, kind), args)
              ELSE NoEntity]
    /\ arrays = <<>>
    /\ records = {}
    /\ functions = {}
    /\ CallInit
    /\ CellInit

NextEntry == \E s \in Slots : Entry(s)

SpecEntry == InitEntry /\ [][NextEntry]_vars

\* --- the module-global cell ---
NextCell ==
    \/ Get
    \/ \E name \in IniNames, default_value \in IniDefaults,
          on_modify \in IniHooks, modifiable \in IniModes :
          CreateIniEntryDef(name, default_value, on_modify, modifiable)
    \/ \E v \in CellValues : WriteThroughBinding(v)
    \/ \E v \in CellValues : WriteThroughGet(v)
    \/ ReadThroughGet

SpecCell == Init /\ [][NextCell]_vars

\* ------------------------------------------------------------------------
\* Properties
\* ------------------------------------------------------------------------
IsRequired(arg) == arg.required

\* the registration thread t is calling, its required and declared argument
\* counts taken from its descriptors, and the actual count of the frame
Callee(t) == CHOOSE s \in OwnerSlots(frame[t].func) : TRUE
RequiredOf(s) == Len(SelectSeq(entities[s].arguments, IsRequired))
DeclaredOf(s) == Len(entities[s].arguments)
ActualOf(t) == Len(frame[t].args)
InCall(t) == frame[t].active /\ OwnerSlots(frame[t].func) # {}

ExpectedWarning(r, a) ==
    "expects at least " \o ToString(r) \o " parameter(s), " \o ToString(a) \o " given"

\* C1: a call with fewer actual arguments than the registration requires
\* never invokes the closure, and ends with the return slot void and exactly
\* one warning "expects at least R parameter(s), A given".
C1_TooFewArgumentsWarn ==
    \A t \in Threads :
        (InCall(t) /\ ActualOf(t) < RequiredOf(Callee(t))) =>
            /\ calls[t] = <<>>
            /\ pc[t] \in {"entered", "check", "done"}
            /\ pc[t] # "done" => (warnings[t] = <<>> /\ return_value[t] = Unset)
            /\ pc[t] = "done" =>
                  /\ return_value[t] = Void
                  /\ warnings[t] =
                        <<ExpectedWarning(RequiredOf(Callee(t)), ActualOf(t))>>

C1_Witness ==
    \E t \in Threads :
        /\ InCall(t) /\ pc[t] = "done"
        /\ RequiredOf(Callee(t)) = 2 /\ ActualOf(t) = 1
        /\ warnings[t] = <<"expects at least 2 parameter(s), 1 given">>
        /\ return_value[t] = Void

\* C2: a call with at least the required number of actual arguments, also
\* with more than the declared number, invokes the registration's closure
\* exactly once with a slice of exactly the actual length and warns nothing.
C2_EnoughArgumentsInvoke ==
    \A t \in Threads :
        (InCall(t) /\ ActualOf(t) >= RequiredOf(Callee(t))) =>
            /\ warnings[t] = <<>>
            /\ pc[t] \in {"entered", "check", "dispatch", "done"}
            /\ pc[t] # "done" => calls[t] = <<>>
            /\ pc[t] = "done" =>
                  /\ Len(calls[t]) = 1
                  /\ calls[t][1].closure = ClosureAddr(Callee(t))
                  /\ Len(calls[t][1].arguments) = ActualOf(t)
                  /\ calls[t][1].arguments = frame[t].args

C2_Witness ==
    \E t \in Threads :
        /\ InCall(t) /\ pc[t] = "done"
        /\ ActualOf(t) > DeclaredOf(Callee(t))
        /\ DeclaredOf(Callee(t)) > RequiredOf(Callee(t))
        /\ Len(calls[t]) = 1
        /\ Len(calls[t][1].arguments) = MaxActual

\* C3: the step that dispatches hands a Function closure no receiver, and a
\* Method closure a receiver made of the frame's receiver handle and of the
\* class reference the Callable holds at that moment.
DispatchedReceiverRight(t) ==
    LET s == Callee(t)
        call == calls'[t][Len(calls'[t])]
    IN  /\ Len(calls'[t]) = Len(calls[t]) + 1
        /\ call.kind = entities[s].handler.kind
        /\ entities[s].handler.kind = "Function" => ~call.this.present
        /\ entities[s].handler.kind = "Method" =>
              /\ call.this.present
              /\ call.this.handle = frame[t].this
              /\ call.this.class = entities[s].handler.class

C3_ReceiverByKind ==
    [][\A t \in Threads :
          (pc[t] = "dispatch" /\ pc'[t] = "done") => DispatchedReceiverRight(t)]_vars

C3_Witness ==
    \E t \in Threads :
        /\ InCall(t) /\ pc[t] = "done" /\ Len(calls[t]) = 1
        /\ calls[t][1].kind = "Method"
        /\ calls[t][1].this = [present |-> TRUE, handle |-> ThisOf(t), class |-> 7002]

\* --- what the engine and a C reader see ---
\* the array leaked at address p
ArrayAt(p) == arrays[CHOOSE k \in 1..Len(arrays) : ArrayAddr(k) = p]

\* the buffer an argument-name pointer points at
NameBufferAt(p) ==
    LET si == CHOOSE si \in Slots \X (1..(MaxArgs + 1)) :
                 /\ Live(si[1])
                 /\ si[2] <= Len(entities[si[1]].arguments)
                 /\ ArgNameBuf(si[1], si[2]) = p
    IN  entities[si[1]].arguments[si[2]].name

\* ZEND_ARG_SEND_MODE: how the engine reads pass-by-reference off a cell
SendModeShift == 16777216
ArgSendMode(c) ==
    IF php_version = "8.0" THEN (c.type_.type_mask \div SendModeShift) % 4
    ELSE c.pass_by_reference

AllZero(c) ==
    \A f \in DOMAIN c :
        IF f = "type_" /\ php_version = "8.0"
        THEN c[f].ptr = 0 /\ c[f].type_mask = 0
        ELSE c[f] = 0

RecordOwner(rec) == CHOOSE s \in Slots : Live(s) /\ NameBuf(s) = rec.fname

\* C4: the record entry() returns has the trampoline as handler, the declared
\* count as num_args, and an array of D+3 cells: the count of required
\* descriptors (wherever they stand), one cell per descriptor in order with
\* its name, a zero cell, and a cell whose name is the address of the
\* entity's own Callable.
EntryRecordRight(rec) ==
    LET s == RecordOwner(rec)
        args == entities[s].arguments
        d == Len(args)
        infos == ArrayAt(rec.arg_info)
    IN  /\ rec.handler = InvokeFn
        /\ rec.num_args = d
        /\ Len(infos) = d + 3
        /\ infos[1].name = Len(SelectSeq(args, IsRequired))
        /\ \A i \in 1..d :
              /\ infos[i + 1].name = ArgNameBuf(s, i)
              /\ NameBufferAt(infos[i + 1].name) = args[i].name
        /\ AllZero(infos[d + 2])
        /\ infos[d + 3].name = HandlerAddr(s)
        /\ entities[s].handler.closure = ClosureAddr(s)

C4_EntryRecordLayout == \A rec \in records : EntryRecordRight(rec)

C4_Witness ==
    \E rec \in records :
        /\ entities[RecordOwner(rec)].arguments =
              <<by_val_optional("a"), by_val("b")>>
        /\ Len(ArrayAt(rec.arg_info)) = 5
        /\ ArrayAt(rec.arg_info)[1].name = 1
        /\ CStr(NameBufferAt(ArrayAt(rec.arg_info)[3].name)) = <<"b">>

\* C10: the four constructors give the four flag combinations, and in every
\* layout the i-th cell of the array tells the engine the pass-by-reference
\* flag of the i-th descriptor.
ConstructorsRight ==
    \A n \in ArgNames :
        /\ by_val(n).pass_by_ref = FALSE /\ by_val(n).required = TRUE
        /\ by_ref(n).pass_by_ref = TRUE /\ by_ref(n).required = TRUE
        /\ by_val_optional(n).pass_by_ref = FALSE /\ by_val_optional(n).required = FALSE
        /\ by_ref_optional(n).pass_by_ref = TRUE /\ by_ref_optional(n).required = FALSE

C10_PassByRefReachesEngine ==
    /\ ConstructorsRight
    /\ \A rec \in records :
          LET args == entities[RecordOwner(rec)].arguments
              infos == ArrayAt(rec.arg_info)
          IN  \A i \in 1..Len(args) :
                 (ArgSendMode(infos[i + 1]) # 0) = args[i].pass_by_ref

\* --- calls from several threads ---
\* the trailing cell of the function thread t is calling
SentinelOf(fn) ==
    LET k == CHOOSE k \in 1..Len(arrays) : ArrayAddr(k) + 1 = fn.arg_info
    IN  arrays[k][fn.num_args + 3]

\* C5: every invocation recovers, from the cell at offset N+1, the Callable
\* of the registration its frame belongs to, whatever its kind, and
\* dispatches to that registration's closure, however the invocations of
\* several threads interleave.
C5_OwnCallableRecovered ==
    \A t \in Threads :
        InCall(t) =>
            /\ pc[t] # "panicked"
            /\ pc[t] \in {"check", "dispatch", "done"} =>
                  /\ handler[t] = HandlerAddr(Callee(t))
                  /\ handler[t] = SentinelOf(frame[t].func).name
            /\ \A i \in 1..Len(calls[t]) :
                  /\ calls[t][i].callable = HandlerAddr(Callee(t))
                  /\ calls[t][i].closure = ClosureAddr(Callee(t))
                  /\ calls[t][i].kind = entities[Callee(t)].handler.kind

C5_Witness ==
    \E t \in Threads, u \in Threads :
        /\ InCall(t) /\ InCall(u) /\ Callee(t) # Callee(u)
        /\ frame[t].func.num_args # frame[u].func.num_args
        /\ pc[t] = "done" /\ Len(calls[t]) = 1 /\ calls[t][1].kind = "Function"
        /\ pc[u] = "dispatch" /\ entities[Callee(u)].handler.kind = "Method"
        /\ handler[u] = HandlerAddr(Callee(u))

\* C6: a method call that begins when the class reference has been resolved
\* hands its closure a receiver of that class.
C6_ResolvedClassObserved ==
    \A t \in Threads :
        (InCall(t) /\ classAtStart[t] # NullPtr) =>
            \A i \in 1..Len(calls[t]) :
                /\ calls[t][i].this.present
                /\ calls[t][i].this.class = classAtStart[t]

C6_Witness ==
    \E t \in Threads, u \in Threads :
        /\ t # u /\ InCall(t) /\ InCall(u)
        /\ pc[t] = "done" /\ Len(calls[t]) = 1
        /\ classAtStart[t] = 7001 /\ calls[t][1].this.class = 7001
        /\ pc[u] = "done" /\ Len(calls[u]) = 1
        /\ classAtStart[u] = NullPtr /\ calls[u][1].this.class = 7002

\* C7: the Callable pointer in the trailing cell of every record and of every
\* installed function points at the live Callable of the entity the record
\* was made from.
PointsAtLiveOwner(fname, cell_ptr) ==
    /\ cell_ptr # NullPtr
    /\ \E s \in Slots :
          /\ Live(s)
          /\ NameBuf(s) = fname
          /\ HandlerAddr(s) = cell_ptr
          /\ entities[s].handler.closure = ClosureAddr(s)

C7_SentinelNeverDangles ==
    /\ \A rec \in records :
          PointsAtLiveOwner(rec.fname,
              ArrayAt(rec.arg_info)[Len(ArrayAt(rec.arg_info))].name)
    /\ \A fn \in functions : PointsAtLiveOwner(fn.fname, SentinelOf(fn).name)

C7_Witness ==
    \E t \in Threads :
        /\ InCall(t) /\ pc[t] = "done" /\ Len(calls[t]) = 1
        /\ frame[t].func \in functions
        /\ Cardinality(functions) = 2
        /\ Cardinality({fn.fname : fn \in functions}) = 2
        /\ PointsAtLiveOwner(frame[t].func.fname, SentinelOf(frame[t].func).name)

\* C8: get() always returns one address, the descriptor built from the cell
\* carries that address as its target together with the given name, default,
\* hook, mode and lengths, and a read through get() yields the latest write,
\* whichever of the two ways it was made.
IniStringLengths == <<5, 7, 2, 0>>

C8_CellAddressStable ==
    /\ Cardinality(got) <= 1
    /\ \A a \in got : cell[a] = lastWritten
    /\ readBack.value = readBack.latest
    /\ ini_entry.built =>
          /\ got = {ini_entry.def.mh_arg2}
          /\ ini_entry.def.name = as_ptr(ini_entry.given[1])
          /\ ini_entry.def.value = as_ptr(ini_entry.given[2])
          /\ ini_entry.def.on_modify = ini_entry.given[3]
          /\ ini_entry.def.modifiable = ini_entry.given[4]
          /\ ini_entry.def.name_length = IniStringLengths[ini_entry.given[1]]
          /\ ini_entry.def.value_length = IniStringLengths[ini_entry.given[2]]
    /\ ENABLED Get
    /\ ENABLED ReadThroughGet
    /\ \A v \in CellValues : ENABLED WriteThroughGet(v)

C8_Witness ==
    /\ ini_entry.built
    /\ ini_entry.def.mh_arg2 = CellAddr
    /\ ini_entry.def.name_length = 5
    /\ lastWritten = MaxCellValue
    /\ readBack = [value |-> MaxCellValue, latest |-> MaxCellValue]
    /\ cell[CellAddr] = MaxCellValue

\* C9: when the name of the cell at offset N+1 is null the call panics at once:
\* no closure is invoked, nothing is warned and the return slot stays
\* untouched, also when there are fewer arguments than required.
C9_NullSentinelPanicsFirst ==
    \A t \in Threads :
        /\ (InCall(t) /\ SentinelOf(frame[t].func).name = NullPtr) =>
              /\ pc[t] \in {"entered", "panicked"}
              /\ calls[t] = <<>>
              /\ warnings[t] = <<>>
              /\ return_value[t] = Unset
        /\ pc[t] = "panicked" => SentinelOf(frame[t].func).name = NullPtr

C9_Witness ==
    \E t \in Threads :
        /\ InCall(t) /\ pc[t] = "panicked"
        /\ ActualOf(t) < RequiredOf(Callee(t))
        /\ warnings[t] = <<>> /\ return_value[t] = Unset

====
